---- MODULE Spec2Model ----
(***************************************************************************)
(* Model of zinc's open-addressing hash table engine, RawHashSet           *)
(* (src/include/zinc/data/detail/raw_hash_set.h): one allocation holding a *)
(* slot array and a state array, linear probing, rehash by reallocation.   *)
(*                                                                         *)
(* Keys are small naturals (a trivially destructible key type, so the      *)
(* second Traits::destroy that swap_allocation runs over slots that        *)
(* transfer_to already destroyed has no effect).  The hash functor is      *)
(* k |-> hash_ * k: hash_ = 1 is the identity hash, hash_ = 0 a hash under *)
(* which all keys collide.                                                 *)
(*                                                                         *)
(* size_ is a std::size_t.  An integer v < 0 stands for 2^64 + v, the      *)
(* value a decrement of 0 wraps to.                                        *)
(***************************************************************************)
EXTENDS Integers, FiniteSets, Sequences, TLC

\* ---------------------------------------------------------------- bounds
MaxKey == 2
MaxMul == 1
MaxInitCap == 3
MaxCap == 6
MaxUnderflow == 1
MaxEraseCap == 4
ScenarioInserts == 25
ScenarioMaxBase == 3
ScenarioMaxStride == 3
MaxMapped == 1
MaxPairInitCap == 2
MaxPairCap == 4
MaxUnallocatedSize == 1
MaxScriptKey == 6
ScriptInserts == 4
MaxChar == 1
MaxFileLen == 3
MaxIndex == 4

Keys == 0..MaxKey
HashMuls == 0..MaxMul
Mapped == 0..MaxMapped

\* ------------------------------------------------------------ bucket state
Empty == "empty"
Full == "full"
Tombstone == "tombstone"
BucketState == {Empty, Full, Tombstone}

\* the outcome of a probe loop that never returns
Diverges == "diverges"

\* content of a slot whose lifetime has not started or has ended
NoValue == -1

\* max_load_factor() is 0.72f; compared as a ratio of integers, see should_resize
max_load_factor_num == 72
max_load_factor_den == 100

\* initial_size(), the default initial capacity
default_initial_size == 32

VARIABLES
    values_,        \* Stored* values_: slot array, index -> key or NoValue
    meta_,          \* BucketState* meta_: state array, index -> BucketState
    capacity_,      \* size_type capacity_
    size_,          \* size_type size_
    hash_,          \* the hash functor, as its multiplier
    hung,           \* a call entered a probe loop that never returns
    last,           \* the most recent call and what it returned (history)
    only_inserts,   \* every call so far was an insert of a fresh key (history)
    inserted_keys,  \* the keys inserted, kept while only_inserts (history)
    mapped_,        \* a map's slots: index -> the mapped half of the pair
    other_,         \* a second table object of the same type
    data_           \* a BasicFile's content, std::basic_string<CharT> data_

vars == <<values_, meta_, capacity_, size_, hash_, hung, last, only_inserts,
          inserted_keys, mapped_, other_, data_>>

\* the table object as a value
Table == [values |-> values_, meta |-> meta_, capacity |-> capacity_, size |-> size_]

\* ------------------------------------------------------------ the engine

\* new_allocation + initialize_meta: a fresh buffer, every state Empty
new_allocation(new_capacity) ==
    [values |-> [i \in 0..(new_capacity - 1) |-> NoValue],
     meta |-> [i \in 0..(new_capacity - 1) |-> Empty],
     capacity |-> new_capacity]

\* hash_ref()(key) % capacity
hash_key_with_count(key, capacity) == (hash_ * key) % capacity

hash_key(t, key) == hash_key_with_count(key, t.capacity)

\* size() + 1 > bucket_count() * max_load_factor(), in float.  72 * capacity
\* is a multiple of 4, so bucket_count() * 0.72 is either an integer n (and
\* the float product lies in [n, n + 1)) or at least 0.04 away from one, and
\* the comparison with the integer size() + 1 is the one of the exact ratio.
\* size() + 1 wraps to 0 at size() = 2^64 - 1 (size = -1 here).
should_resize_without_increment(t) ==
    IF t.size < 0 THEN TRUE
    ELSE max_load_factor_den * t.size > max_load_factor_num * t.capacity

should_resize(t) ==
    LET s1 == t.size + 1
    IN  IF s1 < 0 THEN TRUE
        ELSE max_load_factor_den * s1 > max_load_factor_num * t.capacity

full_and_key_eq(t, key, state, index) ==
    IF state = Full THEN t.values[index] = key ELSE FALSE

\* probe_for<K, ReturnTombstones>: the while (true) loop.  After capacity
\* iterations without a return every bucket has been inspected and the loop
\* repeats them for ever.
RECURSIVE probe_loop(_, _, _, _, _)
probe_loop(t, key, index, ReturnTombstones, steps) ==
    IF steps = t.capacity
    THEN [index |-> index, state |-> Diverges]
    ELSE LET meta == t.meta[index]
         IN  IF meta = Empty \/ full_and_key_eq(t, key, meta, index)
             THEN [index |-> index, state |-> meta]
             ELSE IF ReturnTombstones /\ meta = Tombstone
             THEN [index |-> index, state |-> meta]
             ELSE probe_loop(t, key, (index + 1) % t.capacity, ReturnTombstones, steps + 1)

probe_for_past_tombstones(t, key, index, ReturnTombstones) ==
    probe_loop(t, key, index, FALSE, 0)

probe_for(t, key, index, ReturnTombstones) ==
    probe_loop(t, key, index, ReturnTombstones, 0)

\* setup_new_allocation<false>: for_each_full_slot in index order, each value
\* goes to alloc + hash and meta[hash] becomes full
RECURSIVE setup_loop(_, _, _)
setup_loop(t, alloc, index) ==
    IF index = t.capacity THEN alloc
    ELSE IF t.meta[index] = Full
    THEN LET hash == hash_key_with_count(t.values[index], alloc.capacity)
         IN  setup_loop(t,
                        [alloc EXCEPT !.values[hash] = t.values[index],
                                      !.meta[hash] = Full],
                        index + 1)
    ELSE setup_loop(t, alloc, index + 1)

setup_new_allocation(t, alloc) == setup_loop(t, alloc, 0)

\* swap_allocation: values_, meta_ and capacity_ are replaced, size_ is kept
swap_allocation(t, alloc) ==
    [values |-> alloc.values, meta |-> alloc.meta, capacity |-> alloc.capacity,
     size |-> t.size]

rehash_to_any_size(t, new_size) ==
    IF new_size # t.capacity
    THEN swap_allocation(t, setup_new_allocation(t, new_allocation(new_size)))
    ELSE t

rehash(t, new_size) ==
    IF new_size > t.capacity
    THEN swap_allocation(t, setup_new_allocation(t, new_allocation(new_size)))
    ELSE t

rehash_if_required_same_capacity(t) ==
    IF should_resize(t) THEN rehash(t, t.capacity) ELSE t

rehash_if_required(t) ==
    IF should_resize(t) THEN rehash(t, t.capacity * 2) ELSE t

\* find: end() is the position bucket_count()
find(t, key) ==
    LET p == probe_for(t, key, hash_key(t, key), FALSE)
    IN  IF p.state = Diverges THEN [index |-> t.capacity, returns |-> FALSE]
        ELSE IF p.state = Empty THEN [index |-> t.capacity, returns |-> TRUE]
        ELSE [index |-> p.index, returns |-> TRUE]

\* count: find(key) == end() ? 0 : 1
count(t, key) == IF find(t, key).index = t.capacity THEN 0 ELSE 1

\* contains: find(key) != end()
contains(t, key) == find(t, key).index # t.capacity

insert_meta_only_on_empty(t, key) ==
    LET t1 == rehash_if_required(t)
        p == probe_for(t1, key, hash_key(t1, key), TRUE)
    IN  IF p.state = Diverges
        THEN [table |-> t1, returns |-> FALSE, inserted |-> FALSE,
              index |-> p.index, state |-> p.state]
        ELSE IF p.state # Full
        THEN [table |-> [t1 EXCEPT !.values[p.index] = key,
                                   !.meta[p.index] = IF p.state = Empty THEN Full ELSE @,
                                   !.size = IF p.state = Empty THEN @ + 1 ELSE @],
              returns |-> TRUE, inserted |-> TRUE,
              index |-> p.index, state |-> p.state]
        ELSE [table |-> t1, returns |-> TRUE, inserted |-> FALSE,
              index |-> p.index, state |-> p.state]

insert_without_size_increment(t, key) ==
    LET t1 == rehash_if_required(t)
        p == probe_for(t1, key, hash_key(t1, key), TRUE)
    IN  IF p.state = Diverges
        THEN [table |-> t1, returns |-> FALSE, inserted |-> FALSE,
              index |-> p.index, state |-> p.state]
        ELSE IF p.state # Full
        THEN [table |-> [t1 EXCEPT !.values[p.index] = key,
                                   !.meta[p.index] = Full],
              returns |-> TRUE, inserted |-> TRUE,
              index |-> p.index, state |-> p.state]
        ELSE [table |-> t1, returns |-> TRUE, inserted |-> FALSE,
              index |-> p.index, state |-> p.state]

\* insert: the table after the call, the pair it returns, and what it probed
insert(t, key) ==
    LET t1 == rehash_if_required(t)
        p == probe_for(t1, key, hash_key(t1, key), TRUE)
    IN  IF p.state = Diverges
        THEN [table |-> t1, returns |-> FALSE, inserted |-> FALSE,
              index |-> p.index, state |-> p.state]
        ELSE IF p.state # Full
        THEN [table |-> [t1 EXCEPT !.values[p.index] = key,
                                   !.meta[p.index] = Full,
                                   !.size = IF p.state = Empty THEN @ + 1 ELSE @],
              returns |-> TRUE, inserted |-> TRUE,
              index |-> p.index, state |-> p.state]
        ELSE [table |-> t1, returns |-> TRUE, inserted |-> FALSE,
              index |-> p.index, state |-> p.state]

\* RawHashSet(const RawHashSet&): same capacity, the state array copied,
\* every full slot copied; size_ keeps its default member initializer
copy_construct(other) ==
    [values |-> [i \in 0..(other.capacity - 1) |->
                    IF other.meta[i] = Full THEN other.values[i] ELSE NoValue],
     meta |-> other.meta,
     capacity |-> other.capacity,
     size |-> 0]

\* ---------------------------------------------------- observations of a table

Indices(t) == 0..(t.capacity - 1)

FullCount(t) == Cardinality({i \in Indices(t) : t.meta[i] = Full})

TombstoneCount(t) == Cardinality({i \in Indices(t) : t.meta[i] = Tombstone})

EmptyCount(t) == Cardinality({i \in Indices(t) : t.meta[i] = Empty})

\* keys held by some full bucket
StoredKeys(t) == {t.values[i] : i \in {j \in Indices(t) : t.meta[j] = Full}}

\* find(key) returns a position other than end(), and the position holds key
Findable(t, key) ==
    LET f == find(t, key)
    IN  /\ f.returns
        /\ f.index # t.capacity
        /\ t.meta[f.index] = Full
        /\ t.values[f.index] = key

FindableKeys(t) == {k \in StoredKeys(t) : Findable(t, k)}

\* tombstones on key's probe chain: the buckets from its hashed index up to
\* the first Empty one
RECURSIVE chain_tombstones(_, _, _)
chain_tombstones(t, index, steps) ==
    IF steps = t.capacity \/ t.meta[index] = Empty THEN 0
    ELSE (IF t.meta[index] = Tombstone THEN 1 ELSE 0)
         + chain_tombstones(t, (index + 1) % t.capacity, steps + 1)

ChainTombstones(t, key) == chain_tombstones(t, hash_key(t, key), 0)

\* ------------------------------------------------------------------ actions

SetTable(t) ==
    /\ values_' = t.values
    /\ meta_' = t.meta
    /\ capacity_' = t.capacity
    /\ size_' = t.size

\* op: the call; key, pos, inserted: its argument and result; probed: the
\* state probe_for returned; rehashed: the call reallocated; reinsert: an
\* insert of the key the call before it erased; allowed: should_resize() was
\* false when the insert began; chain_tombs: tombstones on the key's probe
\* chain when the insert probed; value: the mapped value a map call returned;
\* threw: the call left by an exception; equal: what operator== returned;
\* visited: the positions a traversal dereferenced, in order; ended: the
\* traversal reached its end position
NoCall ==
    [op |-> "construct", key |-> NoValue, pos |-> NoValue, inserted |-> FALSE,
     probed |-> "none", rehashed |-> FALSE, reinsert |-> FALSE,
     allowed |-> FALSE, chain_tombs |-> 0,
     value |-> NoValue, threw |-> FALSE, equal |-> FALSE,
     visited |-> <<>>, ended |-> FALSE]

\* explicit RawHashSet(size_type initial_capacity): initialize_allocation and
\* initialize_meta; size_ = 0 by its default member initializer
Construct(initial_capacity, hash) ==
    /\ values_ = new_allocation(initial_capacity).values
    /\ meta_ = new_allocation(initial_capacity).meta
    /\ capacity_ = initial_capacity
    /\ size_ = 0
    /\ hash_ = hash
    /\ hung = FALSE
    /\ last = NoCall
    /\ only_inserts = TRUE
    /\ inserted_keys = {}

\* RawHashSet() = default: values_ and meta_ null, capacity_ and size_ 0
default_constructed == [values |-> <<>>, meta |-> <<>>, capacity |-> 0, size |-> 0]

\* a set's slots have no mapped half, and no second table is in use
OneSet ==
    /\ mapped_ = <<>>
    /\ other_ = default_constructed

\* BasicFile() = default: no file is open, data_ is the empty string
NoFile == data_ = <<>>

Init == \E c \in 1..MaxInitCap, h \in HashMuls : Construct(c, h) /\ OneSet /\ NoFile

\* set.insert(key)
InsertCall(key) ==
    LET t == Table
        t1 == rehash_if_required(t)
        r == insert(t, key)
        fresh == only_inserts /\ key \notin inserted_keys
    IN  /\ ~hung
        /\ SetTable(r.table)
        /\ hung' = ~r.returns
        /\ last' = [NoCall EXCEPT
                       !.op = "insert", !.key = key, !.pos = r.index,
                       !.inserted = r.inserted, !.probed = r.state,
                       !.rehashed = (t1.capacity # t.capacity),
                       !.reinsert = (last.op = "erase" /\ last.key = key),
                       !.allowed = ~should_resize(t),
                       !.chain_tombs = ChainTombstones(t1, key)]
        /\ only_inserts' = fresh
        /\ inserted_keys' = IF fresh THEN inserted_keys \cup {key} ELSE {}
        /\ UNCHANGED <<hash_, data_, mapped_, other_>>

Insert ==
    \E key \in Keys :
        /\ rehash_if_required(Table).capacity <= MaxCap
        /\ InsertCall(key)

\* set.rehash(new_size)
Rehash ==
    \E new_size \in 1..MaxCap :
        LET t == Table
            t1 == rehash(t, new_size)
        IN  /\ ~hung
            /\ SetTable(t1)
            /\ last' = [NoCall EXCEPT !.op = "rehash",
                                      !.rehashed = (t1.capacity # t.capacity)]
            /\ only_inserts' = FALSE
            /\ inserted_keys' = {}
            /\ UNCHANGED <<hash_, data_, hung, mapped_, other_>>

\* auto new_set = set; the program goes on with the copy
Copy ==
    /\ ~hung
    /\ SetTable(copy_construct(Table))
    /\ last' = [NoCall EXCEPT !.op = "copy"]
    /\ only_inserts' = FALSE
    /\ inserted_keys' = {}
    /\ UNCHANGED <<hash_, data_, hung, mapped_, other_>>

\* set.find(key), and with it contains(key) and count(key)
Find ==
    \E key \in Keys :
        LET f == find(Table, key)
        IN  /\ ~hung
            /\ hung' = ~f.returns
            /\ last' = [NoCall EXCEPT !.op = "find", !.key = key, !.pos = f.index]
            /\ UNCHANGED <<values_, meta_, capacity_, size_, hash_, data_, only_inserts,
                           inserted_keys, mapped_, other_>>

erase_to_empty(t, index) ==
    [t EXCEPT !.values[index] = NoValue, !.meta[index] = Empty, !.size = @ - 1]

\* erase(position) as the design states it: destroy the slot, set its state
\* to Tombstone, decrement size
erase(t, index) ==
    [t EXCEPT !.values[index] = NoValue, !.meta[index] = Tombstone, !.size = @ - 1]

Erase ==
    \E index \in Indices(Table) :
        LET t == Table
        IN  /\ ~hung
            /\ t.meta[index] = Full
            /\ t.capacity <= MaxEraseCap
            /\ t.size > -MaxUnderflow
            /\ SetTable(erase(t, index))
            /\ last' = [NoCall EXCEPT !.op = "erase", !.key = t.values[index],
                                      !.pos = index]
            /\ only_inserts' = FALSE
            /\ inserted_keys' = {}
            /\ UNCHANGED <<hash_, data_, hung, mapped_, other_>>

\* the scenario: distinct keys base, base + stride, base + 2 * stride, ...
\* inserted into an empty table of the default initial capacity
Least(S) == CHOOSE k \in S : \A m \in S : k <= m

Greatest(S) == CHOOSE k \in S : \A m \in S : k >= m

ScenarioNextKeys ==
    LET n == Cardinality(inserted_keys)
    IN  IF n = 0 THEN 0..ScenarioMaxBase
        ELSE IF n = 1
        THEN {Greatest(inserted_keys) + d : d \in 1..ScenarioMaxStride}
        ELSE {Greatest(inserted_keys)
                + (Greatest(inserted_keys) - Least(inserted_keys)) \div (n - 1)}

InitScenario == \E h \in HashMuls : Construct(default_initial_size, h) /\ OneSet /\ NoFile

InsertScenario ==
    /\ Cardinality(inserted_keys) < ScenarioInserts
    /\ \E key \in ScenarioNextKeys : InsertCall(key)

\* the operations raw_hash_set.h implements
Next == Insert \/ Rehash \/ Copy \/ Find

Spec == Init /\ [][Next]_vars

\* insert, erase, rehash and lookup on one table
NextErase == Insert \/ Erase \/ Rehash \/ Find

SpecErase == Init /\ [][NextErase]_vars

\* every operation
NextAll == Insert \/ Erase \/ Rehash \/ Copy \/ Find

SpecAll == Init /\ [][NextAll]_vars

NextScenario == InsertScenario

SpecScenario == InitScenario /\ [][NextScenario]_vars

\* ------------------------------------------------------------------ iterators
\* RawHashSetIterator: the buffer, its capacity and index_.  Two iterators of
\* one table are equal when their index_ is.  index_ is a std::size_t: an
\* integer v < 0 stands for 2^64 + v.

\* begin(): the index of the first full state in meta_array(), or its length
begin(t) ==
    LET full == {i \in Indices(t) : t.meta[i] = Full}
    IN  IF full = {} THEN t.capacity ELSE Least(full)

\* end(): the length of meta_array()
end(t) == t.capacity

is_at_end(t, index) == index < 0 \/ t.capacity <= index

RECURSIVE next_full_loop(_, _)
next_full_loop(t, index) ==
    IF is_at_end(t, index) \/ t.meta[index] = Full THEN index
    ELSE next_full_loop(t, index + 1)

find_next_full_from_current(t, index) == next_full_loop(t, index)

\* find_next_full: ++index_, then on while neither at the end nor full
find_next_full(t, index) == next_full_loop(t, index + 1)

RECURSIVE prev_full_loop(_, _)
prev_full_loop(t, index) ==
    IF is_at_end(t, index) \/ t.meta[index] = Full THEN index
    ELSE prev_full_loop(t, index - 1)

\* find_next_full_backwards: --index_, then back while neither at the end
\* nor full; below index 0 index_ wraps and is_at_end() holds
find_next_full_backwards(t, index) == prev_full_loop(t, index - 1)

\* for (auto i : set): from begin(), dereference and ++ until end(); given up
\* after steps dereferences
RECURSIVE forward(_, _, _)
forward(t, index, steps) ==
    IF index = end(t) THEN [visited |-> <<>>, ended |-> TRUE]
    ELSE IF steps = 0 THEN [visited |-> <<>>, ended |-> FALSE]
    ELSE LET rest == forward(t, find_next_full(t, index), steps - 1)
         IN  [visited |-> <<index>> \o rest.visited, ended |-> rest.ended]

\* rbegin() is make_reverse_iterator(begin()) and rend() is
\* make_reverse_iterator(end()).  A std::reverse_iterator with base b
\* dereferences the position before b (a copy of b, decremented) and its ++
\* decrements b.
rbegin(t) == begin(t)

rend(t) == end(t)

\* from rbegin(), dereference and ++ until rend(); given up after steps
\* dereferences
RECURSIVE backward(_, _, _)
backward(t, base, steps) ==
    IF base = rend(t) THEN [visited |-> <<>>, ended |-> TRUE]
    ELSE IF steps = 0 THEN [visited |-> <<>>, ended |-> FALSE]
    ELSE LET before == find_next_full_backwards(t, base)
             rest == backward(t, before, steps - 1)
         IN  [visited |-> <<before>> \o rest.visited, ended |-> rest.ended]

\* for (auto i : set)
Iterate ==
    LET r == forward(Table, begin(Table), capacity_ + 1)
    IN  /\ ~hung
        /\ hung' = ~r.ended
        /\ last' = [NoCall EXCEPT !.op = "iterate", !.visited = r.visited,
                                  !.ended = r.ended]
        /\ only_inserts' = FALSE
        /\ inserted_keys' = {}
        /\ UNCHANGED <<values_, meta_, capacity_, size_, hash_, data_, mapped_, other_>>

\* for (auto it = set.rbegin(); it != set.rend(); ++it) *it
ReverseIterate ==
    LET r == backward(Table, rbegin(Table), capacity_ + 1)
    IN  /\ ~hung
        /\ hung' = ~r.ended
        /\ last' = [NoCall EXCEPT !.op = "reverse_iterate", !.visited = r.visited,
                                  !.ended = r.ended]
        /\ only_inserts' = FALSE
        /\ inserted_keys' = {}
        /\ UNCHANGED <<values_, meta_, capacity_, size_, hash_, data_, mapped_, other_>>

\* every operation, and the two traversals
NextIter ==
    Insert \/ Erase \/ Rehash \/ Copy \/ Find \/ Iterate \/ ReverseIterate

SpecIter == Init /\ [][NextIter]_vars

\* --------------------------------------------------------- allocation failure
rehash_alloc_capacity_first(t, new_size, allocates) ==
    IF new_size > t.capacity
    THEN IF allocates
         THEN [table |-> swap_allocation(t, setup_new_allocation(t, new_allocation(new_size))),
               threw |-> FALSE]
         ELSE [table |-> [t EXCEPT !.capacity = new_size], threw |-> TRUE]
    ELSE [table |-> t, threw |-> FALSE]

\* rehash with an allocator that may fail: new_allocation calls
\* AllocTraits::allocate first, and std::bad_alloc leaves rehash (and
\* rehash_if_required, and insert) from there
rehash_alloc(t, new_size, allocates) ==
    IF new_size > t.capacity
    THEN IF allocates
         THEN [table |-> swap_allocation(t, setup_new_allocation(t, new_allocation(new_size))),
               threw |-> FALSE]
         ELSE [table |-> t, threw |-> TRUE]
    ELSE [table |-> t, threw |-> FALSE]

\* set.rehash(new_size), the allocator failing
RehashFails ==
    \E new_size \in 1..MaxCap :
        LET r == rehash_alloc(Table, new_size, FALSE)
        IN  /\ ~hung
            /\ r.threw
            /\ SetTable(r.table)
            /\ last' = [NoCall EXCEPT !.op = "rehash", !.threw = TRUE]
            /\ only_inserts' = FALSE
            /\ inserted_keys' = {}
            /\ UNCHANGED <<hash_, data_, hung, mapped_, other_>>

\* set.insert(key), the allocator failing in rehash_if_required
InsertFails ==
    \E key \in Keys :
        LET r == rehash_alloc(Table, capacity_ * 2, FALSE)
        IN  /\ ~hung
            /\ should_resize(Table)
            /\ r.threw
            /\ SetTable(r.table)
            /\ last' = [NoCall EXCEPT !.op = "insert", !.key = key, !.threw = TRUE]
            /\ only_inserts' = FALSE
            /\ inserted_keys' = {}
            /\ UNCHANGED <<hash_, data_, hung, mapped_, other_>>

\* the operations raw_hash_set.h implements, with an allocator that fails at
\* will
NextAlloc == Insert \/ Rehash \/ Copy \/ Find \/ RehashFails \/ InsertFails

SpecAlloc == Init /\ [][NextAlloc]_vars

\* ------------------------------------------------------ default construction
\* RawHashSet set; the members keep their initializers
InitDefault ==
    \E h \in HashMuls :
        /\ values_ = default_constructed.values
        /\ meta_ = default_constructed.meta
        /\ capacity_ = default_constructed.capacity
        /\ size_ = default_constructed.size
        /\ hash_ = h
        /\ hung = FALSE
        /\ last = [NoCall EXCEPT !.op = "default_construct"]
        /\ only_inserts = TRUE
        /\ inserted_keys = {}
        /\ OneSet /\ NoFile

\* set.insert(key) while bucket_count() is 0.  rehash_if_required calls
\* rehash(0 * 2), which does nothing; hash_key then evaluates
\* hash_ref()(key) % 0, and probe_for and construct_at go through the null
\* meta_ and values_.  All of that is undefined: the call faults (hung), or
\* it returns having read any bucket state, with size_ incremented when that
\* state was Empty.  No member other than size_ is assigned.
InsertUnallocated ==
    \E key \in Keys, returns \in BOOLEAN, state \in BucketState :
        /\ ~hung
        /\ capacity_ = 0
        /\ size_ < MaxUnallocatedSize
        /\ rehash_if_required(Table) = Table
        /\ hung' = ~returns
        /\ size_' = IF returns /\ state = Empty THEN size_ + 1 ELSE size_
        /\ last' = [NoCall EXCEPT !.op = "insert", !.key = key,
                                  !.inserted = (returns /\ state # Full),
                                  !.probed = IF returns THEN state ELSE Diverges]
        /\ only_inserts' = FALSE
        /\ inserted_keys' = {}
        /\ UNCHANGED <<values_, meta_, capacity_, hash_, data_, mapped_, other_>>

\* insert and find on a table that has a buffer
InsertAllocated == capacity_ > 0 /\ Insert

FindAllocated == capacity_ > 0 /\ Find

NextDefault == InsertUnallocated \/ InsertAllocated \/ Rehash \/ FindAllocated

SpecDefault == InitDefault /\ [][NextDefault]_vars

\* ---------------------------------------------------------------- two tables
\* Two objects of one RawHashSet type: the table of values_, meta_,
\* capacity_ and size_ (set) and other_ (other).  A table's values and meta
\* are the arrays its values_ and meta_ pointers point to; <<>> is nullptr.

\* initialize_allocation: swap_allocation(new_allocation(initial_capacity))
initialize_allocation(t, initial_capacity) ==
    swap_allocation(t, new_allocation(initial_capacity))

\* operator==(other): this == &other, then the sizes, then the TODO
equals(this, other, same_object) ==
    IF same_object THEN TRUE
    ELSE IF other.size # this.size THEN FALSE
    ELSE TRUE

\* swap(lhs, rhs): std::swap of hash_, eq_, values_, capacity_ and size_;
\* both objects have the hash functor hash_.  meta_ is not among the members
\* swapped: each object keeps its own.
swap(lhs, rhs) ==
    [lhs |-> [values |-> rhs.values, meta |-> lhs.meta,
              capacity |-> rhs.capacity, size |-> rhs.size],
     rhs |-> [values |-> lhs.values, meta |-> rhs.meta,
              capacity |-> lhs.capacity, size |-> lhs.size]]

\* RawHashSet(RawHashSet&& other): RawHashSet() and swap(*this, other)
move_construct(other) ==
    LET s == swap(default_constructed, other)
    IN  [this |-> s.lhs, other |-> s.rhs]

\* operator=(RawHashSet other) called with an rvalue: the parameter is
\* move-constructed from the argument and swapped with *this; parameter is
\* the object whose destructor runs when the call ends
move_assign(this, argument) ==
    LET m == move_construct(argument)
        s == swap(this, m.this)
    IN  [this |-> s.lhs, argument |-> m.other, parameter |-> s.rhs]

\* the state array the table reads is the one of the buffer it owns
OwnsMeta(t) == DOMAIN t.meta = DOMAIN t.values

\* after a swap or a move an object's meta_ points into a buffer the other
\* object owns; the calls below are made on objects that own their state array
Detached == last.op \in {"swap", "move_construct", "move_assign"}

InitPair ==
    \E c \in 1..MaxPairInitCap, c2 \in 1..MaxPairInitCap, h \in HashMuls :
        /\ Construct(c, h) /\ NoFile
        /\ mapped_ = <<>>
        /\ other_ = initialize_allocation(default_constructed, c2)

\* set.insert(key)
InsertThis ==
    \E key \in Keys :
        /\ ~Detached
        /\ rehash_if_required(Table).capacity <= MaxPairCap
        /\ InsertCall(key)

\* other.insert(key)
InsertOther ==
    \E key \in Keys :
        LET r == insert(other_, key)
        IN  /\ ~hung
            /\ ~Detached
            /\ rehash_if_required(other_).capacity <= MaxPairCap
            /\ other_' = r.table
            /\ hung' = ~r.returns
            /\ last' = [NoCall EXCEPT !.op = "insert_other", !.key = key,
                                      !.pos = r.index, !.inserted = r.inserted,
                                      !.probed = r.state]
            /\ only_inserts' = FALSE
            /\ inserted_keys' = {}
            /\ UNCHANGED <<values_, meta_, capacity_, size_, hash_, data_, mapped_>>

\* set == other, and set == set
Equals ==
    \E same_object \in BOOLEAN :
        /\ ~hung
        /\ ~Detached
        /\ last' = [NoCall EXCEPT
                       !.op = IF same_object THEN "equals_self" ELSE "equals",
                       !.equal = equals(Table, IF same_object THEN Table ELSE other_,
                                        same_object)]
        /\ only_inserts' = FALSE
        /\ inserted_keys' = {}
        /\ UNCHANGED <<values_, meta_, capacity_, size_, hash_, data_, hung, mapped_, other_>>

\* swap(set, other)
Swap ==
    LET s == swap(Table, other_)
    IN  /\ ~hung
        /\ last.op \notin {"move_construct", "move_assign"}
        /\ SetTable(s.lhs)
        /\ other_' = s.rhs
        /\ last' = [NoCall EXCEPT !.op = "swap"]
        /\ only_inserts' = FALSE
        /\ inserted_keys' = {}
        /\ UNCHANGED <<hash_, data_, hung, mapped_>>

\* swap(set, set)
SelfSwap ==
    LET s == swap(Table, Table)
    IN  /\ ~hung
        /\ ~Detached
        /\ SetTable(s.lhs)
        /\ last' = [NoCall EXCEPT !.op = "self_swap"]
        /\ only_inserts' = FALSE
        /\ inserted_keys' = {}
        /\ UNCHANGED <<hash_, data_, hung, mapped_, other_>>

\* RawHashSet moved(std::move(set)), with other out of scope: other_ becomes
\* the new object
MoveConstruct ==
    LET m == move_construct(Table)
    IN  /\ ~hung
        /\ ~Detached
        /\ SetTable(m.other)
        /\ other_' = m.this
        /\ last' = [NoCall EXCEPT !.op = "move_construct"]
        /\ only_inserts' = FALSE
        /\ inserted_keys' = {}
        /\ UNCHANGED <<hash_, data_, hung, mapped_>>

\* set = std::move(other).  When the call ends ~RawHashSet runs on the
\* parameter: clear_slots reads meta()[i] for every i below its capacity_
\* through its meta_, which is nullptr.  That read is undefined: the call
\* faults there (hung) or goes on.
MoveAssign ==
    LET m == move_assign(Table, other_)
    IN  /\ ~hung
        /\ ~Detached
        /\ SetTable(m.this)
        /\ other_' = m.argument
        /\ hung' \in (IF m.parameter.capacity > 0 /\ ~OwnsMeta(m.parameter)
                      THEN BOOLEAN ELSE {FALSE})
        /\ last' = [NoCall EXCEPT !.op = "move_assign"]
        /\ only_inserts' = FALSE
        /\ inserted_keys' = {}
        /\ UNCHANGED <<hash_, data_, mapped_>>

NextPair ==
    InsertThis \/ InsertOther \/ Equals \/ Swap \/ SelfSwap \/ MoveConstruct
        \/ MoveAssign

SpecPair == InitPair /\ [][NextPair]_vars

\* -------------------------------------------------------------- the map layer
\* RawHashMap (src/include/zinc/containers/detail/raw_hash_map.h): the engine
\* with try_emplace, at and operator[] added.  A slot holds a pair: values_
\* is its first (the key), mapped_ its second.

\* a value-initialised mapped_type, what try_emplace(key) constructs
default_mapped == 0

MapTable ==
    [values |-> values_, mapped |-> mapped_, meta |-> meta_,
     capacity |-> capacity_, size |-> size_]

\* try_emplace(key, args...): hash_key, probe_for<true>, and on a bucket that
\* is not full: construct the pair, update_meta, ++size_ if it was empty
try_emplace(t, key, arg) ==
    LET p == probe_for(t, key, hash_key(t, key), TRUE)
    IN  IF p.state = Diverges
        THEN [table |-> t, returns |-> FALSE, inserted |-> FALSE,
              index |-> p.index, state |-> p.state]
        ELSE IF p.state # Full
        THEN [table |-> [t EXCEPT !.values[p.index] = key,
                                  !.mapped[p.index] = arg,
                                  !.meta[p.index] = Full,
                                  !.size = IF p.state = Empty THEN @ + 1 ELSE @],
              returns |-> TRUE, inserted |-> TRUE,
              index |-> p.index, state |-> p.state]
        ELSE [table |-> t, returns |-> TRUE, inserted |-> FALSE,
              index |-> p.index, state |-> p.state]

\* at(key): find, throw std::out_of_range on end(), else return *it.  index
\* is the element the returned reference designates.
at(t, key) ==
    LET f == find(t, key)
    IN  IF ~f.returns THEN [returns |-> FALSE, threw |-> FALSE, index |-> t.capacity]
        ELSE IF f.index = t.capacity
        THEN [returns |-> FALSE, threw |-> TRUE, index |-> t.capacity]
        ELSE [returns |-> TRUE, threw |-> FALSE, index |-> f.index]

\* operator[](key): try_emplace(key).first->second
subscript(t, key) ==
    LET r == try_emplace(t, key, default_mapped)
    IN  [table |-> r.table, returns |-> r.returns, inserted |-> r.inserted,
         index |-> r.index, state |-> r.state,
         value |-> IF r.returns THEN r.table.mapped[r.index] ELSE NoValue]

SetMapTable(t) ==
    /\ SetTable(t)
    /\ mapped_' = t.mapped

\* RawHashMap(size_type initial_capacity), the engine's constructor inherited
InitMap ==
    \E c \in 1..MaxInitCap, h \in HashMuls :
        /\ Construct(c, h) /\ NoFile
        /\ mapped_ = [i \in 0..(c - 1) |-> NoValue]
        /\ other_ = default_constructed

\* map.try_emplace(key, arg); last.value is arg
TryEmplace ==
    \E key \in Keys, arg \in Mapped :
        LET r == try_emplace(MapTable, key, arg)
        IN  /\ ~hung
            /\ SetMapTable(r.table)
            /\ hung' = ~r.returns
            /\ last' = [NoCall EXCEPT !.op = "try_emplace", !.key = key,
                                      !.pos = r.index, !.inserted = r.inserted,
                                      !.probed = r.state, !.value = arg]
            /\ only_inserts' = FALSE
            /\ inserted_keys' = {}
            /\ UNCHANGED <<hash_, data_, other_>>

\* map.at(key); an exception ends the call, not the program
At ==
    \E key \in Keys :
        LET r == at(MapTable, key)
        IN  /\ ~hung
            /\ hung' = (~r.returns /\ ~r.threw)
            /\ last' = [NoCall EXCEPT !.op = "at", !.key = key, !.pos = r.index,
                                      !.threw = r.threw,
                                      !.value = IF r.returns THEN mapped_[r.index]
                                                ELSE NoValue]
            /\ only_inserts' = FALSE
            /\ inserted_keys' = {}
            /\ UNCHANGED <<values_, meta_, capacity_, size_, hash_, data_, mapped_, other_>>

\* map[key]
Subscript ==
    \E key \in Keys :
        LET r == subscript(MapTable, key)
        IN  /\ ~hung
            /\ SetMapTable(r.table)
            /\ hung' = ~r.returns
            /\ last' = [NoCall EXCEPT !.op = "subscript", !.key = key,
                                      !.pos = r.index, !.inserted = r.inserted,
                                      !.probed = r.state, !.value = r.value]
            /\ only_inserts' = FALSE
            /\ inserted_keys' = {}
            /\ UNCHANGED <<hash_, data_, other_>>

\* the operations raw_hash_map.h implements, and find
NextMap == TryEmplace \/ At \/ Subscript \/ Find

SpecMap == InitMap /\ [][NextMap]_vars

\* ------------------------------------------------------------------- claims

\* C1: after insert has been called on a sequence of distinct keys, starting
\* from an empty table, find(k) returns a position other than end() that
\* holds k, for every key k that was inserted.
C1_RoundTrip ==
    (only_inserts /\ ~hung) => \A k \in inserted_keys : Findable(Table, k)

\* C2: a rehash that reallocates, explicit or triggered by insert, leaves
\* size() unchanged and every key findable immediately before it is findable
\* immediately after it.
C2_RehashPreservesMembership ==
    [][last'.rehashed =>
        LET after == IF last'.op = "rehash" THEN Table' ELSE rehash_if_required(Table)
        IN  /\ after.size = size_
            /\ FindableKeys(Table) \subseteq FindableKeys(after)]_vars

\* C3: insert of a key that some full bucket already holds returns
\* inserted = false with a position at an element holding the key, and
\* leaves size() unchanged.
C3_InsertIdempotent ==
    [][(last'.op = "insert" /\ ~hung' /\ last'.key \in StoredKeys(Table)) =>
        /\ ~last'.inserted
        /\ size_' = size_
        /\ last'.pos \in Indices(Table')
        /\ meta_'[last'.pos] = Full
        /\ values_'[last'.pos] = last'.key]_vars

\* C4: no two full buckets hold the same key.
C4_KeyUniqueness ==
    \A i, j \in Indices(Table) :
        (i # j /\ meta_[i] = Full /\ meta_[j] = Full) => values_[i] # values_[j]

C6_SizeIsLiveCount == size_ = FullCount(Table)

\* C7: an insert of key k right after an erase of k, begun with
\* size() + 1 <= bucket_count() * 0.72, leaves bucket_count() unchanged, and
\* find(k) then returns a position other than end() that holds k.
C7_TombstoneReinsert ==
    (last.op = "insert" /\ last.reinsert /\ last.allowed) =>
        /\ ~hung
        /\ ~last.rehashed
        /\ Findable(Table, last.key)

\* C7 witness: such an insert with two or more tombstones on the key's probe
\* chain.
C7_Witness ==
    /\ last.op = "insert" /\ last.reinsert /\ last.allowed
    /\ last.chain_tombs >= 2
    /\ last.probed = Tombstone

\* C8: erase of the position of a stored key k leaves that bucket Tombstone
\* and size() one less; find(k) then returns end(), and every other key
\* findable before is findable after.
C8_Erase ==
    [][last'.op = "erase" =>
        /\ meta_'[last'.pos] = Tombstone
        /\ size_' = size_ - 1
        /\ find(Table', last'.key).returns
        /\ find(Table', last'.key).index = capacity_'
        /\ (FindableKeys(Table) \ {last'.key}) \subseteq FindableKeys(Table')]_vars

\* C9: when an insert has returned, the full and the tombstone buckets
\* together are at most bucket_count() * 0.72, and an Empty bucket remains.
C9_TombstonesCountAsOccupied ==
    (last.op = "insert" /\ ~hung) =>
        /\ max_load_factor_den * (FullCount(Table) + TombstoneCount(Table))
               <= max_load_factor_num * capacity_
        /\ EmptyCount(Table) >= 1

\* C10 as stated: 23 distinct keys inserted into an empty table of capacity
\* 32: no rehash during the first 22 inserts, and the 23rd rehashes to 64.
C10_RehashAtInsert23 ==
    LET n == Cardinality(inserted_keys)
    IN  /\ n <= 22 => (capacity_ = default_initial_size /\ ~last.rehashed)
        /\ n = 23 => (capacity_ = 2 * default_initial_size /\ last.rehashed)

\* C10 amended: no rehash during the first 23 inserts (bucket_count() is 32
\* when the 23rd returns), and the 24th rehashes once, to 64.
C10_RehashAtInsert24 ==
    LET n == Cardinality(inserted_keys)
    IN  /\ only_inserts /\ ~hung
        /\ n <= 23 => (capacity_ = default_initial_size /\ ~last.rehashed)
        /\ n = 24 => (capacity_ = 2 * default_initial_size /\ last.rehashed)

\* C10 witness: the 24th insert has returned from a table of 64 buckets.
C10_Witness ==
    /\ Cardinality(inserted_keys) = 24
    /\ last.op = "insert" /\ last.rehashed
    /\ capacity_ = 2 * default_initial_size

\* C11: try_emplace(k, v) on a map that does not store k returns
\* inserted = true and leaves a full bucket holding k with mapped value v at
\* the returned position; on a map that stores k it returns inserted = false
\* with a position at an element holding k and leaves every mapped value and
\* size() unchanged.
C11_TryEmplaceKeepsFirst ==
    [][last'.op = "try_emplace" =>
        /\ ~hung'
        /\ last'.pos \in Indices(Table')
        /\ meta_'[last'.pos] = Full
        /\ values_'[last'.pos] = last'.key
        /\ IF last'.key \notin StoredKeys(Table)
           THEN /\ last'.inserted
                /\ mapped_'[last'.pos] = last'.value
           ELSE /\ ~last'.inserted
                /\ mapped_' = mapped_
                /\ size_' = size_]_vars

\* C12: on the same table and key, try_emplace and insert either both return
\* or both do not, and leave the same bucket states, size() and
\* bucket_count().
C12_TryEmplaceIsInsert ==
    \A key \in Keys, arg \in Mapped :
        LET e == try_emplace(MapTable, key, arg)
            i == insert(Table, key)
        IN  ~hung =>
                /\ e.returns = i.returns
                /\ e.table.capacity = i.table.capacity
                /\ e.table.size = i.table.size
                /\ e.table.meta = i.table.meta

\* C13: in every state and for every key k: find(k) returns, and returns
\* end() exactly when no full bucket holds k; contains(k) is find(k) != end();
\* count(k) is 1 when contains(k) and 0 otherwise; and a lookup changes
\* neither size(), bucket_count() nor any bucket.
C13_LookupAgreement ==
    [][/\ \A k \in Keys :
            /\ find(Table, k).returns
            /\ (find(Table, k).index = capacity_) <=> (k \notin StoredKeys(Table))
            /\ contains(Table, k) <=> (find(Table, k).index # capacity_)
            /\ count(Table, k) = IF contains(Table, k) THEN 1 ELSE 0
       /\ last'.op = "find" => Table' = Table]_vars

\* C14: at(k) for a key k that a full bucket holds returns a reference to
\* the element holding k, whose mapped half last.value is; for a key no full
\* bucket holds it throws std::out_of_range; in both cases it leaves size(),
\* bucket_count() and every bucket unchanged and the table usable.
C14_At ==
    [][last'.op = "at" =>
        /\ ~hung'
        /\ MapTable' = MapTable
        /\ IF last'.key \in StoredKeys(Table)
           THEN /\ ~last'.threw
                /\ last'.pos \in Indices(Table)
                /\ meta_[last'.pos] = Full
                /\ values_[last'.pos] = last'.key
                /\ last'.value = mapped_[last'.pos]
           ELSE last'.threw]_vars

\* C15: operator[](k) returns in every state; for a key no full bucket holds
\* it stores k with a value-initialised mapped value and size() grows by 1;
\* for a stored key it changes nothing; it returns the mapped value stored
\* for k, and contains(k) holds afterwards.
C15_Subscript ==
    [][last'.op = "subscript" =>
        /\ ~hung'
        /\ IF last'.key \notin StoredKeys(Table)
           THEN /\ size_' = size_ + 1
                /\ last'.value = default_mapped
           ELSE MapTable' = MapTable
        /\ last'.pos \in Indices(Table')
        /\ meta_'[last'.pos] = Full
        /\ values_'[last'.pos] = last'.key
        /\ last'.value = mapped_'[last'.pos]
        /\ find(Table', last'.key).returns
        /\ contains(Table', last'.key)]_vars

\* C16: a == b on two tables is true exactly when size() is the same and every
\* key stored in a is found in b; so two tables of equal size that store
\* different keys compare unequal.
C16_TableEquality ==
    [][last'.op = "equals" =>
        (last'.equal <=>
            /\ size_ = other_.size
            /\ \A k \in StoredKeys(Table) : Findable(other_, k))]_vars

\* C17: the copy of a table has the source's bucket_count(), bucket states,
\* size() and findable keys.  (The source is the constructor's const
\* argument, Table in the step's first state.)
C17_CopyConstruction ==
    [][last'.op = "copy" =>
        /\ capacity_' = capacity_
        /\ meta_' = meta_
        /\ size_' = size_
        /\ FindableKeys(Table') = FindableKeys(Table)]_vars

\* C18: after a move construction or a move assignment the destination has
\* the source's former size(), bucket_count(), bucket states and findable
\* keys, and the source has size 0, capacity 0 and no buffer; the call
\* returns.
C18_Move ==
    [][/\ last'.op = "move_construct" =>
            /\ other_'.size = size_
            /\ other_'.capacity = capacity_
            /\ other_'.meta = meta_
            /\ FindableKeys(other_') = FindableKeys(Table)
            /\ size_' = 0 /\ capacity_' = 0 /\ values_' = <<>>
       /\ last'.op = "move_assign" =>
            /\ ~hung'
            /\ size_' = other_.size
            /\ capacity_' = other_.capacity
            /\ meta_' = other_.meta
            /\ FindableKeys(Table') = FindableKeys(other_)
            /\ other_'.size = 0 /\ other_'.capacity = 0 /\ other_'.values = <<>>]_vars

\* C19: swap(a, b) of two tables leaves a with b's former size(),
\* bucket_count(), bucket states and findable keys, and b with a's; a second
\* swap(a, b) restores both; swap(a, a) leaves a unchanged.
C19_Swap ==
    [][/\ (last'.op = "swap" /\ ~Detached) =>
            /\ size_' = other_.size /\ other_'.size = size_
            /\ capacity_' = other_.capacity /\ other_'.capacity = capacity_
            /\ meta_' = other_.meta /\ other_'.meta = meta_
            /\ FindableKeys(Table') = FindableKeys(other_)
            /\ FindableKeys(other_') = FindableKeys(Table)
            /\ swap(Table', other_') = [lhs |-> Table, rhs |-> other_]
       /\ last'.op = "self_swap" => Table' = Table]_vars

\* C20: in a step that keeps the allocation (bucket_count() unchanged) every
\* bucket keeps its state or goes Empty -> Full or Tombstone -> Full, in an
\* insert, or Full -> Tombstone, in an erase: no Full or Tombstone bucket
\* becomes Empty, and no Empty bucket becomes Tombstone.
C20_BucketStateMachine ==
    [][capacity_' = capacity_ =>
        \A i \in Indices(Table) :
            \/ meta_'[i] = meta_[i]
            \/ /\ last'.op = "insert"
               /\ meta_[i] \in {Empty, Tombstone}
               /\ meta_'[i] = Full
            \/ /\ last'.op = "erase"
               /\ meta_[i] = Full
               /\ meta_'[i] = Tombstone]_vars

\* C20 witness: an insert has reused a Tombstone bucket of the allocation it
\* found, which an erase had taken from Full.
C20_Witness ==
    /\ last.op = "insert" /\ ~last.rehashed /\ ~hung
    /\ last.probed = Tombstone
    /\ meta_[last.pos] = Full
    /\ TombstoneCount(Table) >= 1

\* C21: in every state and for every key, the probe loop of find, contains
\* and count, and the probe loop of try_emplace, returns after inspecting at
\* most bucket_count() buckets.
C21_ProbeTerminates ==
    \A key \in Keys :
        /\ probe_for(MapTable, key, hash_key(MapTable, key), FALSE).state # Diverges
        /\ probe_for(MapTable, key, hash_key(MapTable, key), TRUE).state # Diverges

\* C22: a table constructed without a bucket-count hint has bucket_count()
\* 32, and the first insert into it returns inserted = true, leaving size()
\* 1 and the key findable.
C22_DefaultConstruction ==
    [][last.op = "default_construct" =>
        /\ capacity_ = default_initial_size
        /\ last'.op = "insert" =>
               /\ ~hung'
               /\ last'.inserted
               /\ size_' = 1
               /\ Findable(Table', last'.key)]_vars

\* C23: when the allocator fails in a rehash, explicit or begun by insert,
\* the call ends with the exception and capacity, size, the slots and every
\* bucket state are as they were before the call.
C23_AllocationFailure ==
    [][(last'.threw /\ last'.op \in {"rehash", "insert"}) =>
        /\ ~hung'
        /\ Table' = Table]_vars

\* C23 witness: an insert into a table holding elements has ended with the
\* allocator's exception.
C23_Witness ==
    /\ last.op = "insert" /\ last.threw
    /\ FullCount(Table) >= 2

\* C24: rehash(n) with n <= bucket_count() leaves bucket_count(), size() and
\* every bucket unchanged; rehash(n) with n > bucket_count() leaves
\* bucket_count() = n and size() unchanged; and no call makes bucket_count()
\* smaller.
C24_RehashGrowsOnly ==
    [][/\ \A n \in 1..MaxCap :
            IF n <= capacity_
            THEN rehash(Table, n) = Table
            ELSE /\ rehash(Table, n).capacity = n
                 /\ rehash(Table, n).size = size_
       /\ capacity_' >= capacity_
       /\ last'.op = "rehash" =>
              IF last'.rehashed THEN capacity_' > capacity_ ELSE Table' = Table]_vars

\* C24 witness: a rehash to no more than bucket_count() has left a table of
\* two or more elements as it was.
C24_Witness ==
    /\ last.op = "rehash" /\ ~last.rehashed
    /\ size_ >= 2
    /\ FullCount(Table) >= 2

\* the indices of the full buckets
FullIndices(t) == {i \in Indices(t) : t.meta[i] = Full}

\* C25: a traversal from begin() by ++ ends at end(), and the positions it
\* dereferences are the full buckets, each once, in ascending index order;
\* begin() = end() exactly when no bucket is full.
C25_ForwardIteration ==
    /\ (begin(Table) = end(Table)) <=> (FullIndices(Table) = {})
    /\ last.op = "iterate" =>
           /\ last.ended
           /\ ~hung
           /\ {last.visited[j] : j \in DOMAIN last.visited} = FullIndices(Table)
           /\ Len(last.visited) = Cardinality(FullIndices(Table))
           /\ \A j \in 1..(Len(last.visited) - 1) :
                  last.visited[j] < last.visited[j + 1]

\* C25 witness: a traversal has passed over an Empty and a Tombstone bucket
\* and visited two elements.
C25_Witness ==
    /\ last.op = "iterate" /\ last.ended
    /\ Len(last.visited) >= 2
    /\ TombstoneCount(Table) >= 1
    /\ EmptyCount(Table) >= 1
    /\ \E i \in Indices(Table) :
           /\ meta_[i] = Tombstone
           /\ last.visited[1] < i
           /\ i < last.visited[Len(last.visited)]

\* C26: a traversal from rbegin() by ++ ends at rend(), after as many
\* dereferences as there are elements, and the positions it dereferences are
\* the full buckets, each once, in descending index order.
C26_ReverseIteration ==
    last.op = "reverse_iterate" =>
        /\ last.ended
        /\ ~hung
        /\ {last.visited[j] : j \in DOMAIN last.visited} = FullIndices(Table)
        /\ Len(last.visited) = Cardinality(FullIndices(Table))
        /\ \A j \in 1..(Len(last.visited) - 1) :
               last.visited[j] > last.visited[j + 1]

\* ------------------------------------------------ the scripted insertions

\* RawHashSet<Traits> set(5)
script_initial_capacity == 5

ScriptKeys == 0..MaxScriptKey

\* a table of script_initial_capacity buckets whose hash is the identity
InitScript == Construct(script_initial_capacity, 1) /\ OneSet /\ NoFile

\* set.insert(key) for a key not inserted before, ScriptInserts times at most
InsertScript ==
    /\ Cardinality(inserted_keys) < ScriptInserts
    /\ \E key \in ScriptKeys \ inserted_keys : InsertCall(key)

NextScript == InsertScript

SpecScript == InitScript /\ [][NextScript]_vars

\* C27: once exactly the keys 1, 5, 3 and 6 have been inserted into a table
\* constructed with 5 buckets and the identity hash (in that order or any
\* other), size() is 4, find(3) is not end() and find(2) is end().
C27_Scenario ==
    (only_inserts /\ inserted_keys = {1, 5, 3, 6}) =>
        /\ ~hung
        /\ size_ = 4
        /\ find(Table, 3).returns /\ find(Table, 3).index # capacity_
        /\ find(Table, 2).returns /\ find(Table, 2).index = capacity_

\* the state after insert(1), insert(5), insert(3), insert(6): the fourth
\* insert doubled the 5 buckets and put 6 into bucket 6
C27_Witness ==
    /\ only_inserts /\ inserted_keys = {1, 5, 3, 6}
    /\ last.op = "insert" /\ last.key = 6 /\ last.rehashed /\ last.pos = 6
    /\ capacity_ = 10
    /\ \A k \in {1, 5, 3, 6} : meta_[k] = Full /\ values_[k] = k

\* ---------------------------------------------------- BasicFile (io/file.h)

Chars == 0..MaxChar

\* the strings data_ can hold: what update_contents read from the file
RECURSIVE Strings(_)
Strings(n) ==
    IF n = 0 THEN {<<>>}
    ELSE Strings(n - 1) \cup {Append(s, c) : s \in Strings(n - 1), c \in Chars}

FileContents == Strings(MaxFileLen)

\* data_[index]: the character at index, the terminator at index == size(),
\* undefined beyond it (any character is read, or the read faults)
subscript_data(data, index) ==
    IF index < Len(data) THEN [values |-> {data[index + 1]}, faults |-> {FALSE}]
    ELSE IF index = Len(data) THEN [values |-> {0}, faults |-> {FALSE}]
    ELSE [values |-> Chars, faults |-> BOOLEAN]

\* BasicFile::at: throws std::out_of_range if data_.size() >= index,
\* returns data_[index] otherwise
file_at(data, index) ==
    IF Len(data) >= index
    THEN [threw |-> TRUE, values |-> {NoValue}, faults |-> {FALSE}]
    ELSE [threw |-> FALSE,
          values |-> subscript_data(data, index).values,
          faults |-> subscript_data(data, index).faults]

\* a BasicFile opened on a readable file; no table is in use
InitFile ==
    /\ values_ = default_constructed.values
    /\ meta_ = default_constructed.meta
    /\ capacity_ = default_constructed.capacity
    /\ size_ = default_constructed.size
    /\ hash_ = 1
    /\ hung = FALSE
    /\ last = [NoCall EXCEPT !.op = "open"]
    /\ only_inserts = TRUE
    /\ inserted_keys = {}
    /\ OneSet
    /\ data_ \in FileContents

\* file.at(index)
FileAt ==
    \E index \in 0..MaxIndex :
        LET r == file_at(data_, index)
        IN  \E value \in r.values, fault \in r.faults :
                /\ ~hung
                /\ hung' = fault
                /\ last' = [NoCall EXCEPT !.op = "at", !.key = index,
                                          !.threw = r.threw,
                                          !.value = IF fault THEN NoValue ELSE value]
                /\ UNCHANGED <<values_, meta_, capacity_, size_, hash_, only_inserts,
                               inserted_keys, mapped_, other_, data_>>

\* file.notify_changed(): update_contents reads the whole file again
NotifyChanged ==
    \E content \in FileContents :
        /\ ~hung
        /\ data_' = content
        /\ last' = [NoCall EXCEPT !.op = "notify_changed"]
        /\ UNCHANGED <<values_, meta_, capacity_, size_, hash_, hung, only_inserts,
                       inserted_keys, mapped_, other_>>

NextFile == FileAt \/ NotifyChanged

SpecFile == InitFile /\ [][NextFile]_vars

\* C28: at(index) returns the character at index for every index < size()
\* and throws std::out_of_range exactly when index >= size().
C28_FileAt ==
    (last.op = "at") =>
        /\ ~hung
        /\ last.threw <=> (last.key >= Len(data_))
        /\ (last.key < Len(data_)) => (last.value = data_[last.key + 1])

\* ------------------------------------------------------- slot lifetimes

\* The constructors, insert and copy construct a value in a slot exactly when
\* they set its state to full, so in the buffer a table owns a slot holds a
\* live value iff its state is Full.
live_slots(t) == [i \in 0..(t.capacity - 1) |-> t.meta[i] = Full]

\* what the lifetime calls of one operation did: old and new are the live
\* slots of the current buffer and of the new one, dead_destroys the slots
\* destroy was called on while not live, live_constructs the slots construct
\* was called on while live, leaked the slots still live at deallocate
Lifetimes(t, new_capacity) ==
    [old |-> live_slots(t),
     new |-> [j \in 0..(new_capacity - 1) |-> FALSE],
     dead_destroys |-> {}, live_constructs |-> {}, leaked |-> {}]

\* AllocTraits::construct at slot dest of the new buffer
construct_at(l, dest) ==
    [l EXCEPT !.live_constructs = IF l.new[dest] THEN @ \cup {dest} ELSE @,
              !.new[dest] = TRUE]

\* AllocTraits::destroy at slot source of the current buffer
destroy_at(l, source) ==
    [l EXCEPT !.dead_destroys = IF l.old[source] THEN @ ELSE @ \cup {source},
              !.old[source] = FALSE]

\* SlotTraits::transfer_to: move_to, then destroy the source
transfer_to(l, source, dest) == destroy_at(construct_at(l, dest), source)

\* setup_new_allocation<false>: transfer_to(value_ptr_to(index), alloc + hash)
\* for every full slot
RECURSIVE transfer_loop(_, _, _, _)
transfer_loop(t, l, new_capacity, index) ==
    IF index = t.capacity THEN l
    ELSE IF t.meta[index] = Full
    THEN transfer_loop(t,
                       transfer_to(l, index,
                                   hash_key_with_count(t.values[index], new_capacity)),
                       new_capacity, index + 1)
    ELSE transfer_loop(t, l, new_capacity, index + 1)

\* for_each_full_slot(destroy): the states read are those of the current
\* buffer, which the transfer did not change
RECURSIVE destroy_loop(_, _, _)
destroy_loop(t, l, index) ==
    IF index = t.capacity THEN l
    ELSE IF t.meta[index] = Full
    THEN destroy_loop(t, destroy_at(l, index), index + 1)
    ELSE destroy_loop(t, l, index + 1)

\* AllocTraits::deallocate of the current buffer
deallocate(t, l) ==
    [l EXCEPT !.leaked = {i \in 0..(t.capacity - 1) : l.old[i]}]

\* swap_allocation: if (values()) destroy every full slot and deallocate
swap_allocation_lifetimes(t, l) ==
    IF t.values # <<>> THEN deallocate(t, destroy_loop(t, l, 0)) ELSE l

\* rehash(new_size) with new_size > bucket_count(): transfer_to_new_allocation
\* and then swap_allocation
rehash_lifetimes(t, new_size) ==
    swap_allocation_lifetimes(t, transfer_loop(t, Lifetimes(t, new_size), new_size, 0))

\* destroy_allocation: clear_slots and deallocate
destroy_allocation_lifetimes(t) ==
    deallocate(t, destroy_loop(t, Lifetimes(t, 0), 0))

\* ~RawHashSet(): the object and its buffer are gone
Destroy ==
    /\ ~hung
    /\ capacity_ > 0
    /\ SetTable(default_constructed)
    /\ last' = [NoCall EXCEPT !.op = "destroy"]
    /\ only_inserts' = FALSE
    /\ inserted_keys' = {}
    /\ UNCHANGED <<hash_, data_, hung, mapped_, other_>>

\* no member is called on a destroyed table
Alive == last.op # "destroy"

NextLifetime == (Alive /\ (Insert \/ Rehash \/ Copy \/ Find)) \/ Destroy

SpecLifetime == Init /\ [][NextLifetime]_vars

\* C29: each element is destroyed exactly once: a rehash (on its own or inside
\* an insert) and the destructor call destroy only on slots that hold a live
\* value, and no slot of a buffer is live when the buffer is deallocated.
C29_DestroyedOnce ==
    [][/\ last'.rehashed =>
            /\ rehash_lifetimes(Table, capacity_').dead_destroys = {}
            /\ rehash_lifetimes(Table, capacity_').leaked = {}
       /\ last'.op = "destroy" =>
            /\ destroy_allocation_lifetimes(Table).dead_destroys = {}
            /\ destroy_allocation_lifetimes(Table).leaked = {}]_vars

\* C30: construct is never applied to a slot that holds a live value: insert
\* constructs only where probe_for returned Empty or Tombstone, a rehash
\* constructs each moved element in a slot of the new buffer that is not yet
\* live, and when the rehash is done a slot is live iff its state is Full.
C30_ConstructOnlyInDeadSlots ==
    [][/\ (last'.op = "insert" /\ last'.inserted) => last'.probed \in {Empty, Tombstone}
       /\ last'.rehashed =>
            /\ rehash_lifetimes(Table, capacity_').live_constructs = {}
            /\ \A j \in 0..(capacity_' - 1) :
                  rehash_lifetimes(Table, capacity_').new[j]
                      <=> (rehash(Table, capacity_').meta[j] = Full)]_vars

\* ------------------------------------------------- claims on the whole table

\* meta[i] is the state of values[i]: both arrays have bucket_count()
\* entries, and a slot holds a value exactly when its state is Full
LockStep(t) ==
    /\ DOMAIN t.meta = DOMAIN t.values
    /\ DOMAIN t.values = 0..(t.capacity - 1)
    /\ \A i \in DOMAIN t.values : (t.meta[i] = Full) <=> (t.values[i] # NoValue)

\* C31: in every reachable state of both tables (after construction, insert,
\* rehash, swap, move construction and move assignment) the state array a
\* table reads is the one of the allocation its slot pointer refers to.
C31_LockStep == LockStep(Table) /\ LockStep(other_)

\* ------------------------------------------- insert and erase on a map

\* setup_new_allocation moves the whole pair: bucket j of the new buffer holds
\* the pair written there last, the one from the greatest full index whose
\* key hashes to j
rehash_mapped(t, new_size) ==
    [j \in 0..(new_size - 1) |->
        LET from == {i \in 0..(t.capacity - 1) :
                        /\ t.meta[i] = Full
                        /\ hash_key_with_count(t.values[i], new_size) = j}
        IN  IF from = {} THEN NoValue ELSE t.mapped[Greatest(from)]]

\* rehash_if_required on a table of pairs
rehash_pairs_if_required(t) ==
    LET s == [values |-> t.values, meta |-> t.meta, capacity |-> t.capacity,
              size |-> t.size]
        s1 == rehash_if_required(s)
    IN  IF s1.capacity = t.capacity THEN t
        ELSE [values |-> s1.values, mapped |-> rehash_mapped(t, s1.capacity),
              meta |-> s1.meta, capacity |-> s1.capacity, size |-> s1.size]

\* insert(value) with value = {key, arg}: rehash_if_required, probe_for<true>
\* on key_from(value), and on a bucket that is not full: construct the pair,
\* update_meta, ++size_ if it was empty
insert_pair(t, key, arg) ==
    LET t1 == rehash_pairs_if_required(t)
        p == probe_for(t1, key, hash_key(t1, key), TRUE)
    IN  IF p.state = Diverges
        THEN [table |-> t1, returns |-> FALSE, inserted |-> FALSE,
              index |-> p.index, state |-> p.state]
        ELSE IF p.state # Full
        THEN [table |-> [t1 EXCEPT !.values[p.index] = key,
                                   !.mapped[p.index] = arg,
                                   !.meta[p.index] = Full,
                                   !.size = IF p.state = Empty THEN @ + 1 ELSE @],
              returns |-> TRUE, inserted |-> TRUE,
              index |-> p.index, state |-> p.state]
        ELSE [table |-> t1, returns |-> TRUE, inserted |-> FALSE,
              index |-> p.index, state |-> p.state]

\* map.insert({key, arg})
InsertPair ==
    \E key \in Keys, arg \in Mapped :
        LET t == MapTable
            t1 == rehash_pairs_if_required(t)
            r == insert_pair(t, key, arg)
        IN  /\ ~hung
            /\ t1.capacity <= MaxCap
            /\ SetMapTable(r.table)
            /\ hung' = ~r.returns
            /\ last' = [NoCall EXCEPT !.op = "insert", !.key = key,
                                      !.pos = r.index, !.inserted = r.inserted,
                                      !.probed = r.state, !.value = arg,
                                      !.rehashed = (t1.capacity # t.capacity)]
            /\ only_inserts' = FALSE
            /\ inserted_keys' = {}
            /\ UNCHANGED <<hash_, data_, other_>>

\* map.erase(position) as the design states it: destroy the pair, set the
\* state to Tombstone, decrement size
ErasePair ==
    \E index \in Indices(Table) :
        LET t == MapTable
        IN  /\ ~hung
            /\ t.meta[index] = Full
            /\ t.capacity <= MaxEraseCap
            /\ t.size > -MaxUnderflow
            /\ SetMapTable([t EXCEPT !.values[index] = NoValue,
                                     !.mapped[index] = NoValue,
                                     !.meta[index] = Tombstone,
                                     !.size = @ - 1])
            /\ last' = [NoCall EXCEPT !.op = "erase", !.key = t.values[index],
                                      !.pos = index]
            /\ only_inserts' = FALSE
            /\ inserted_keys' = {}
            /\ UNCHANGED <<hash_, data_, hung, other_>>

NextMapAll == TryEmplace \/ InsertPair \/ ErasePair \/ Find

SpecMapAll == InitMap /\ [][NextMapAll]_vars

\* the number of buckets probe order inspects before it reaches index
ProbeDistance(t, key, index) == (index - hash_key(t, key)) % t.capacity

\* C32: when insert or try_emplace has constructed an element for a key, the
\* bucket it used was Empty or Tombstone and it is the first such bucket in
\* probe order from hash(key) mod bucket_count(): every bucket probe order
\* inspects before it is Full.
C32_InsertionTarget ==
    (last.op \in {"insert", "try_emplace"} /\ last.inserted /\ ~hung) =>
        /\ last.probed \in {Empty, Tombstone}
        /\ meta_[last.pos] = Full
        /\ values_[last.pos] = last.key
        /\ \A d \in 0..(capacity_ - 1) :
              d < ProbeDistance(Table, last.key, last.pos) =>
                  meta_[(hash_key(Table, last.key) + d) % capacity_] = Full

\* C32 witness: a try_emplace that went past a Full bucket, stopped at a
\* Tombstone and left an Empty bucket unused
C32_Witness ==
    /\ last.op = "try_emplace" /\ last.inserted /\ ~hung
    /\ last.probed = Tombstone
    /\ ProbeDistance(Table, last.key, last.pos) >= 1
    /\ EmptyCount(Table) >= 1

\* C33: an insert of a key that is already findable, issued when
\* size() + 1 > bucket_count() * max_load_factor(), doubles bucket_count(),
\* returns inserted = false and leaves size() and the findable keys unchanged.
C33_GrowthCheckOnDuplicate ==
    [][(/\ last'.op = "insert" /\ ~hung'
        /\ should_resize(Table)
        /\ last'.key \in FindableKeys(Table)) =>
            /\ capacity_' = 2 * capacity_
            /\ last'.rehashed
            /\ ~last'.inserted
            /\ size_' = size_
            /\ FindableKeys(Table') = FindableKeys(Table)]_vars

\* ------------------------------------------------- single iterator steps

\* the positions an iterator of the table has when the program obtains it
\* from begin(), end(), find or insert: a full bucket, or end()
Positions(t) == {i \in Indices(t) : t.meta[i] = Full} \cup {end(t)}

\* ++it, for it != end()
Increment ==
    \E index \in Positions(Table) \ {end(Table)} :
        /\ ~hung
        /\ last' = [NoCall EXCEPT !.op = "increment", !.key = index,
                                  !.pos = find_next_full(Table, index)]
        /\ only_inserts' = FALSE
        /\ inserted_keys' = {}
        /\ UNCHANGED <<values_, meta_, capacity_, size_, hash_, data_, hung, mapped_,
                       other_>>

\* --it
Decrement ==
    \E index \in Positions(Table) :
        /\ ~hung
        /\ last' = [NoCall EXCEPT !.op = "decrement", !.key = index,
                                  !.pos = find_next_full_backwards(Table, index)]
        /\ only_inserts' = FALSE
        /\ inserted_keys' = {}
        /\ UNCHANGED <<values_, meta_, capacity_, size_, hash_, data_, hung, mapped_,
                       other_>>

NextStep == Insert \/ Rehash \/ Copy \/ Find \/ Increment \/ Decrement

SpecStep == Init /\ [][NextStep]_vars

\* the index is a full bucket or exactly bucket_count()
Canonical(t, index) ==
    \/ index = t.capacity
    \/ index \in Indices(t) /\ t.meta[index] = Full

\* C34: the position ++ or -- leaves an iterator at is a Full bucket or
\* exactly bucket_count() (so it equals end() whenever it is not on a Full
\* bucket), and -- of the position ++ reached from a Full bucket that is not
\* the last one is the bucket ++ started from.
C34_CanonicalPositions ==
    /\ last.op \in {"increment", "decrement"} => Canonical(Table, last.pos)
    /\ (last.op = "increment" /\ last.pos # end(Table)) =>
           find_next_full_backwards(Table, last.pos) = last.key

\* C35: immediately after a reallocating rehash (a rehash call, or the one an
\* insert makes before it probes) every bucket is Empty or Full, and as many
\* buckets are Full as were immediately before it.
C35_RehashKeepsFullCount ==
    [][last'.rehashed =>
          /\ TombstoneCount(rehash(Table, capacity_')) = 0
          /\ FullCount(rehash(Table, capacity_')) = FullCount(Table)
          /\ last'.op = "rehash" => Table' = rehash(Table, capacity_')]_vars

\* the chain of a full bucket: no bucket that probe order inspects between
\* the home index of its key and the bucket itself is Empty
ProbeChain(t) ==
    \A i \in Indices(t) :
        t.meta[i] = Full =>
            \A d \in 0..(t.capacity - 1) :
                d < ProbeDistance(t, t.values[i], i) =>
                    t.meta[(hash_key(t, t.values[i]) + d) % t.capacity] # Empty

copy_assign(this, argument) ==
    LET s == swap(this, copy_construct(argument))
    IN  [this |-> s.lhs, parameter |-> s.rhs]

\* ~RawHashSet() on the parameter of operator=: clear_slots reads states
\* through the parameter's meta_ for its capacity_ slots and destroys the
\* slots it finds full.  Undefined when that state array is not the one of
\* its buffer: it is shorter than capacity_, or names a slot full that holds
\* no value.
parameter_destructor_undefined(this, parameter) ==
    \E i \in 0..(parameter.capacity - 1) :
        \/ i \notin DOMAIN parameter.meta
        \/ parameter.meta[i] = Full /\ this.meta[i] # Full

\* RawHashSet other(set), with the previous other out of scope
CopyConstructOther ==
    /\ ~hung
    /\ other_' = copy_construct(Table)
    /\ last' = [NoCall EXCEPT !.op = "copy_construct"]
    /\ only_inserts' = FALSE
    /\ inserted_keys' = {}
    /\ UNCHANGED <<values_, meta_, capacity_, size_, hash_, data_, hung, mapped_>>

\* other = set.  swap leaves other.meta_ pointing at the state array of the
\* buffer other had before; the parameter now owns that buffer and its
\* destructor deallocates it when the call ends.  What is read through
\* other.meta_ from then on is undefined: any states.
CopyAssign ==
    LET m == copy_assign(other_, Table)
    IN  \E states \in [0..(m.this.capacity - 1) -> BucketState],
           fault \in (IF parameter_destructor_undefined(other_, m.parameter)
                      THEN BOOLEAN ELSE {FALSE}) :
            /\ ~hung
            /\ other_' = [m.this EXCEPT !.meta = states]
            /\ hung' = fault
            /\ last' = [NoCall EXCEPT !.op = "copy_assign"]
            /\ only_inserts' = FALSE
            /\ inserted_keys' = {}
            /\ UNCHANGED <<values_, meta_, capacity_, size_, hash_, data_, mapped_>>

\* other.rehash(new_size)
RehashOther ==
    \E new_size \in 1..MaxPairCap :
        /\ ~hung
        /\ other_' = rehash(other_, new_size)
        /\ last' = [NoCall EXCEPT !.op = "rehash_other",
                                  !.rehashed = (new_size > other_.capacity)]
        /\ only_inserts' = FALSE
        /\ inserted_keys' = {}
        /\ UNCHANGED <<values_, meta_, capacity_, size_, hash_, data_, hung, mapped_>>

\* no call is made on a table whose meta_ dangles
Dangling == last.op = "copy_assign"

NextCopy ==
    \/ ~Dangling /\ (InsertThis \/ InsertOther \/ RehashOther \/ CopyConstructOther)
    \/ ~Dangling /\ CopyAssign

SpecCopy == InitPair /\ [][NextCopy]_vars

\* C37: after other is copy-constructed from set, or assigned from it, set is
\* unchanged and other is a usable table of its own: its state array is the
\* one of its slots and it has set's bucket_count() and findable keys; and an
\* insert or rehash on one of the two tables leaves the other as it was.
C37_CopiesIndependent ==
    [][/\ last'.op \in {"copy_construct", "copy_assign"} =>
            /\ ~hung'
            /\ Table' = Table
            /\ LockStep(other_')
            /\ other_'.capacity = capacity_
            /\ FindableKeys(other_') = FindableKeys(Table)
       /\ last'.op = "insert" => other_' = other_
       /\ last'.op \in {"insert_other", "rehash_other"} => Table' = Table]_vars

====
